---- MODULE Spec2Model ----
(***************************************************************************)
(* Model of openbb_terminal/plots_core/plotly_helper.py: the OpenBBFigure  *)
(* class (construction over a base figure, legend labels, reference lines  *)
(* with legend entries, overlays, margins, show, to_subplot).              *)
(*                                                                         *)
(* Python values are modelled as follows.  None is the string None; a      *)
(* keyword dict is a function whose domain is the set of its keys; a       *)
(* marker dict is the string of its literal ("{}", "{color:red}"); a list  *)
(* is a sequence.  Python truthiness ("if x", "x or d") is Falsy.          *)
(***************************************************************************)
EXTENDS Integers, Sequences, FiniteSets, TLC

VARIABLES
    figs,     \* state id -> one figure state (traces, layout, flags): the
              \* contents of one instance __dict__
    last,     \* the last call made: operation, the handle it was made
              \* through, arguments, what the call read from its
              \* environment, and its outcome
    handles   \* handle -> id of the state the object behind it holds as
              \* its __dict__ (0: no object constructed yet)

vars == <<figs, last, handles>>

-----------------------------------------------------------------------------
(* Bounds *)

MaxTraces == 3     \* traces a figure may hold before no more are added
MaxShows == 2      \* calls of show on one figure
MaxRows == 2       \* rows of a subplot grid
MaxCols == 2       \* columns of a subplot grid
MaxMerged == 1     \* traces a grid may hold after a figure is merged into it

-----------------------------------------------------------------------------
(* Python values *)

None == "None"

EmptyDict == [k \in {} |-> None]

\* "not v" for the strings and dicts the code tests
Falsy(v) == v = None \/ v = "" \/ v = "{}"

\* "a or d"
Or(a, d) == IF Falsy(a) THEN d ELSE a

\* dict.update: keys of upd win
DictUpdate(d, upd) ==
    [k \in DOMAIN d \cup DOMAIN upd |-> IF k \in DOMAIN upd THEN upd[k] ELSE d[k]]

\* d.get(k) with None for a missing key
Get(d, k) == IF k \in DOMAIN d THEN d[k] ELSE None

FigIds == {1, 2}

\* f"xaxis{col}", f"yaxis{row}", f"{row}"
FormatKey(prefix, n) == prefix \o ToString(n)

\* the key under which a layout holds its n-th x- or y-axis: the first axis
\* is "xaxis" / "yaxis", the others carry their number
LayoutKey(prefix, n) == IF n = 1 THEN prefix ELSE prefix \o ToString(n)

\* the name by which traces and axes refer to the n-th axis: "x", "x2", ...
AxisRef(letter, n) == IF n = 1 THEN letter ELSE letter \o ToString(n)

\* the most axes of one letter a grid has (every cell with a secondary y-axis)
MaxAxes == 2 * MaxRows * MaxCols

XAxisKeys == {LayoutKey("xaxis", n) : n \in 1..MaxAxes}

-----------------------------------------------------------------------------
(* Traces *)

\* go.Scatter(x=..., y=..., mode=..., name=..., marker=..., line_dash=...,
\*            legendrank=..., **kwargs): properties not given are None
Scatter(x, y, mode, name, marker, line_dash, legendrank, kwargs) ==
    [x |-> x, y |-> y, mode |-> mode, name |-> name, marker |-> marker,
     line_dash |-> line_dash, legendrank |-> legendrank,
     xaxis |-> Get(kwargs, "xaxis"), yaxis |-> Get(kwargs, "yaxis"),
     showlegend |-> Get(kwargs, "showlegend"),
     legendgroup |-> Get(kwargs, "legendgroup")]

\* number of points of a trace that carry data (a None coordinate is no point)
DataPoints(tr) ==
    Cardinality({i \in 1..Len(tr.x) : tr.x[i] # None /\ tr.y[i] # None})

\* the data traces a caller adds with go.Figure.add_trace
UserTraces ==
    { Scatter(<<"1", "2">>, <<"5", "6">>, "markers", "A", "{color:red}",
              "dot", None, [yaxis |-> "y2"]),
      Scatter(<<"1">>, <<"7">>, "lines+markers", "A", "{color:blue}",
              "dash", None, EmptyDict),
      Scatter(<<"1", "2">>, <<"3", "4">>, None, "B", "{}",
              None, None, EmptyDict) }

-----------------------------------------------------------------------------
(* OpenBBFigure.__init__ *)

\* update_layout(margin=dict(l=0, r=0, t=0, b=0, pad=0, autoexpand=True (1)),
\*               height=762, width=1400) when the backend is a tty
InitMargin(tty) ==
    IF tty THEN [l |-> 0, r |-> 0, t |-> 0, b |-> 0, pad |-> 0, autoexpand |-> 1]
    ELSE EmptyDict

InitSize(tty) ==
    IF tty THEN [height |-> 762, width |-> 1400] ELSE EmptyDict

\* update_xaxes(xaxis) / update_yaxes(yaxis): the partial axis spec is merged
\* into the figure's axes of that letter; a figure without a grid has the one
\* axis "xaxis" / "yaxis"
AxisLetter(key) == IF key \in XAxisKeys THEN "x" ELSE "y"

update_axes(axes, letter, patch) ==
    LET first == IF letter = "x" THEN "xaxis" ELSE "yaxis"
        keys  == {k \in DOMAIN axes : AxisLetter(k) = letter} \cup {first}
    IN  [k \in DOMAIN axes \cup keys |->
           IF k \in keys
           THEN DictUpdate(IF k \in DOMAIN axes THEN axes[k] ELSE EmptyDict, patch)
           ELSE axes[k]]

\* go.Figure(): no traces, nothing set in the layout, no subplot grid;
\* template is the mapbox style of the default template the layout resolves
BaseFigure(template) ==
    [data |-> <<>>,
     margin |-> EmptyDict,
     size |-> EmptyDict,
     annotations |-> <<>>,
     shapes |-> <<>>,
     axes |-> EmptyDict,
     legend |-> EmptyDict,
     modebar |-> EmptyDict,
     newshape_line_color |-> None,
     title |-> None,
     template |-> template,
     grid |-> EmptyDict,
     is_subplots |-> FALSE,
     has_secondary_y |-> FALSE]

\* OpenBBFigure(fig, is_subplots=..., has_secondary_y=..., xaxis=..., yaxis=...):
\* the state of fig is taken over, the flags are set, the axis overrides are
\* applied and, on a tty, margins and size are set
init_figure(fig, is_subplots, has_secondary_y, xaxis, yaxis, tty) ==
    LET ax1 == IF xaxis # EmptyDict THEN update_axes(fig.axes, "x", xaxis)
               ELSE fig.axes
        ax2 == IF yaxis # EmptyDict THEN update_axes(ax1, "y", yaxis) ELSE ax1
    IN  [fig EXCEPT !.is_subplots = is_subplots,
                    !.has_secondary_y = has_secondary_y,
                    !.axes = ax2,
                    !.margin = DictUpdate(@, InitMargin(tty)),
                    !.size = DictUpdate(@, InitSize(tty))]

\* OpenBBFigure(...) with no base figure
NewFigure(is_subplots, has_secondary_y, xaxis, yaxis, tty, template) ==
    init_figure(BaseFigure(template), is_subplots, has_secondary_y,
                xaxis, yaxis, tty)

-----------------------------------------------------------------------------
(* OpenBBFigure.create_subplots *)

\* "specs or [[{}] * cols] * rows": the spec of cell (r, c)
SpecAt(specs, r, c) == IF specs = <<>> THEN EmptyDict ELSE specs[r][c]

\* spec.get("secondary_y", False)
WantsSecondary(spec) == "secondary_y" \in DOMAIN spec /\ spec["secondary_y"]

\* cells are numbered row by row from the top left
CellIndex(cols, r, c) == (r - 1) * cols + c

\* the number of the primary y-axis of cell (r, c): every cell before it
\* takes one y-axis, and one more when it has a secondary y-axis
YNumber(grid, r, c) ==
    CellIndex(grid.cols, r, c) +
    Cardinality({cell \in grid.secondary :
                   CellIndex(grid.cols, cell[1], cell[2]) < CellIndex(grid.cols, r, c)})

\* plotly.subplots.make_subplots(rows, cols, specs): the grid and the axes
\* it lays out, one x-axis and one y-axis per cell and a secondary y-axis
\* overlaying the primary one where the cell's spec asks for it
make_subplots(rows, cols, specs, template) ==
    LET cells == (1..rows) \X (1..cols)
        grid  == [rows |-> rows, cols |-> cols,
                  secondary |-> {cell \in cells :
                                   WantsSecondary(SpecAt(specs, cell[1], cell[2]))}]
        xn(cell) == CellIndex(cols, cell[1], cell[2])
        yn(cell) == YNumber(grid, cell[1], cell[2])
        xkeys == {LayoutKey("xaxis", xn(cell)) : cell \in cells}
        ykeys == {LayoutKey("yaxis", yn(cell)) : cell \in cells}
        skeys == {LayoutKey("yaxis", yn(cell) + 1) : cell \in grid.secondary}
        axis(k) ==
            IF k \in xkeys
            THEN LET cell == CHOOSE cl \in cells : LayoutKey("xaxis", xn(cl)) = k
                 IN  [anchor |-> AxisRef("y", yn(cell)),
                      domain |-> <<cell[2], cols>>]
            ELSE IF k \in ykeys
            THEN LET cell == CHOOSE cl \in cells : LayoutKey("yaxis", yn(cl)) = k
                 IN  [anchor |-> AxisRef("x", xn(cell)),
                      domain |-> <<cell[1], rows>>]
            ELSE LET cell == CHOOSE cl \in grid.secondary :
                                LayoutKey("yaxis", yn(cl) + 1) = k
                 IN  [anchor |-> AxisRef("x", xn(cell)),
                      overlaying |-> AxisRef("y", yn(cell)),
                      side |-> "right"]
    IN  [BaseFigure(template) EXCEPT
           !.grid = grid,
           !.axes = [k \in xkeys \cup ykeys \cup skeys |-> axis(k)]]

\* "if specs and any(spec.get("secondary_y", False) for row in specs
\*                   for spec in row): kwargs["has_secondary_y"] = True"
AnySecondary_All(specs) ==
    /\ specs # <<>>
    /\ \A r \in 1..Len(specs) : \A c \in 1..Len(specs[r]) :
         WantsSecondary(specs[r][c])

AnySecondary(specs) ==
    /\ specs # <<>>
    /\ \E r \in 1..Len(specs) : \E c \in 1..Len(specs[r]) :
         WantsSecondary(specs[r][c])

create_subplots(rows, cols, specs, tty, template) ==
    init_figure(make_subplots(rows, cols, specs, template), TRUE,
                AnySecondary(specs), EmptyDict, EmptyDict, tty)

\* the cell specs callers pass: none, a secondary y-axis in every cell, a
\* secondary y-axis in the first cell only, an explicit "no secondary"
SpecsArgs(rows, cols) ==
    { <<>>,
      [r \in 1..rows |-> [c \in 1..cols |-> [secondary_y |-> TRUE]]],
      [r \in 1..rows |-> [c \in 1..cols |->
          IF r = 1 /\ c = 1 THEN [secondary_y |-> TRUE] ELSE EmptyDict]],
      [r \in 1..rows |-> [c \in 1..cols |-> [secondary_y |-> FALSE]]] }

-----------------------------------------------------------------------------
(* go.Figure.add_trace, inherited *)

add_trace(fig, tr) == [fig EXCEPT !.data = Append(@, tr)]

AddTrace(f) ==
    /\ Len(figs[handles[f]].data) < MaxTraces
    /\ \E tr \in UserTraces :
         /\ figs' = [figs EXCEPT ![handles[f]] = add_trace(@, tr)]
         /\ last' = [op |-> "add_trace", fig |-> f, args |-> tr,
                     env |-> EmptyDict, result |-> None]
    /\ UNCHANGED handles

-----------------------------------------------------------------------------
(* OpenBBFigure.add_legend_label *)

\* index of the first trace, in insertion order, whose name is `trace`
\* (0 when there is none): "for trace_ in self.data: if trace_.name == trace"
FirstNamed(data, trace) ==
    IF \E i \in 1..Len(data) : data[i].name = trace
    THEN CHOOSE i \in 1..Len(data) :
            /\ data[i].name = trace
            /\ \A j \in 1..(i - 1) : data[j].name # trace
    ELSE 0

\* "for arg, default in zip([label, mode, marker, line_dash], [...]):
\*      if not arg and default: arg = default"
\* The assignment binds the loop variable arg; label, mode, marker and
\* line_dash keep the values the caller passed.
ZipDefault(arg, default) == arg

\* "if trace: for ... else: raise ValueError(f"Trace '{trace}' not found")"
TraceNotFound_NoElse(data, trace) == FALSE

TraceNotFound(data, trace) == ~Falsy(trace) /\ FirstNamed(data, trace) = 0

\* "if not label: raise ValueError("Label must be specified")"
LabelMissing_OnlyNone(label) == label = None

LabelMissing(label) == Falsy(label)

\* go.Scatter(x=[None], y=[None], mode=mode or "lines", name=label,
\*            marker=marker or dict(), line_dash=line_dash or "solid",
\*            legendrank=legendrank, **kwargs)
LegendScatter_NamedByMode(label, mode, marker, line_dash, legendrank, kwargs) ==
    Scatter(<<None>>, <<None>>, Or(mode, "lines"), Or(mode, "lines"),
            Or(marker, "{}"), Or(line_dash, "solid"), legendrank, kwargs)

LegendScatter(label, mode, marker, line_dash, legendrank, kwargs) ==
    Scatter(<<None>>, <<None>>, Or(mode, "lines"), label,
            Or(marker, "{}"), Or(line_dash, "solid"), legendrank, kwargs)

\* The outcome of add_legend_label on the traces `data`: the exception raised
\* (None when the call returns) and the traces afterwards.
add_legend_label(data, trace, label, mode, marker, line_dash, legendrank, kwargs) ==
    LET i      == IF Falsy(trace) THEN 0 ELSE FirstNamed(data, trace)
        found  == i # 0
        label1 == IF found THEN ZipDefault(label, trace) ELSE label
        mode1  == IF found THEN ZipDefault(mode, data[i].mode) ELSE mode
        mark1  == IF found THEN ZipDefault(marker, data[i].marker) ELSE marker
        dash1  == IF found THEN ZipDefault(line_dash, data[i].line_dash) ELSE line_dash
        kw1    == IF found THEN DictUpdate(kwargs, [yaxis |-> data[i].yaxis])
                  ELSE kwargs
    IN  IF TraceNotFound(data, trace)
        THEN [raised |-> "Trace not found", data |-> data]
        ELSE IF LabelMissing(label1)
        THEN [raised |-> "Label must be specified", data |-> data]
        ELSE [raised |-> None,
              data |-> Append(data,
                         LegendScatter(label1, mode1, mark1, dash1, legendrank, kw1))]

\* the arguments callers pass
TraceArgs == {None, "", "A", "B", "Z"}
LabelArgs == {None, "", "L"}
\* mode, marker, line_dash, legendrank and the extra keyword arguments
StyleArgs ==
    { [mode |-> None, marker |-> None, line_dash |-> None, legendrank |-> None,
       kwargs |-> EmptyDict],
      [mode |-> "markers", marker |-> "{color:green}", line_dash |-> "dashdot",
       legendrank |-> "1", kwargs |-> [showlegend |-> "True", yaxis |-> "y3"]],
      [mode |-> None, marker |-> "{}", line_dash |-> "dashdot",
       legendrank |-> None, kwargs |-> [showlegend |-> "True"]] }

AddLegendLabel(f) ==
    /\ Len(figs[handles[f]].data) < MaxTraces
    /\ \E trace \in TraceArgs, label \in LabelArgs, st \in StyleArgs :
         LET r == add_legend_label(figs[handles[f]].data, trace, label, st.mode,
                                   st.marker, st.line_dash, st.legendrank,
                                   st.kwargs)
         IN  /\ figs' = [figs EXCEPT ![handles[f]].data = r.data]
             /\ last' = [op |-> "add_legend_label", fig |-> f,
                         args |-> [trace |-> trace, label |-> label, style |-> st],
                         env |-> EmptyDict, result |-> r.raised]
    /\ UNCHANGED handles

-----------------------------------------------------------------------------
(* Legend labels on one figure *)

InitLegend ==
    /\ \E sub \in BOOLEAN, tty \in BOOLEAN :
         figs = [f \in FigIds |-> NewFigure(sub, FALSE, EmptyDict, EmptyDict, tty, "dark")]
    /\ last = [op |-> "init", fig |-> 0, args |-> None, env |-> EmptyDict,
               result |-> None]
    /\ handles = [h \in FigIds |-> h]

NextLegend == AddTrace(1) \/ AddLegendLabel(1)

SpecLegend == InitLegend /\ [][NextLegend]_vars

-----------------------------------------------------------------------------
(* Claims about add_legend_label, checked under SpecLegend *)

\* the step just taken is a call of add_legend_label on figure f
LegendCall(f) == last'.op = "add_legend_label" /\ last'.fig = f

Newest(data) == data[Len(data)]

\* C1: a call of add_legend_label with an explicit non-empty label and no
\* template trace returns normally, the figure then has exactly one more
\* trace, the traces it had are unchanged, and the appended trace has no data
\* point and is named by the label.
C1_ExplicitLabelAppendsOne ==
    [][\A f \in FigIds :
         (LegendCall(f) /\ Falsy(last'.args.trace) /\ ~Falsy(last'.args.label))
         => /\ last'.result = None
            /\ Len(figs'[f].data) = Len(figs[f].data) + 1
            /\ SubSeq(figs'[f].data, 1, Len(figs[f].data)) = figs[f].data
            /\ DataPoints(Newest(figs'[f].data)) = 0
            /\ Newest(figs'[f].data).name = last'.args.label]_vars

C1_Witness ==
    /\ last.op = "add_legend_label"
    /\ Falsy(last.args.trace) /\ last.args.label = "L"
    /\ last.result = None
    /\ Len(figs[1].data) = 3
    /\ DataPoints(figs[1].data[1]) = 2
    /\ figs[1].data[3].name = "L"

\* what the docstring promises for an argument the caller left unset
Inherited(arg, default) == IF Falsy(arg) /\ ~Falsy(default) THEN default ELSE arg

\* C2: with a template trace name that matches a trace, the template is the
\* first trace of that name, the call returns normally, and each of label,
\* mode, marker and line_dash the caller left unset takes the template's
\* value in the appended trace, which also carries the template's y-axis.
C2_TemplateInherited ==
    [][\A f \in FigIds :
         (/\ LegendCall(f)
          /\ ~Falsy(last'.args.trace)
          /\ FirstNamed(figs[f].data, last'.args.trace) # 0)
         => LET a   == last'.args
                tpl == figs[f].data[FirstNamed(figs[f].data, a.trace)]
                new == Newest(figs'[f].data)
            IN  /\ last'.result = None
                /\ Len(figs'[f].data) = Len(figs[f].data) + 1
                /\ new.name = Inherited(a.label, tpl.name)
                /\ new.mode = Or(Inherited(a.style.mode, tpl.mode), "lines")
                /\ new.marker = Or(Inherited(a.style.marker, tpl.marker), "{}")
                /\ new.line_dash =
                      Or(Inherited(a.style.line_dash, tpl.line_dash), "solid")
                /\ new.yaxis = tpl.yaxis]_vars

\* C3: with a template trace name that no trace of the figure has, the call
\* raises the trace-not-found error whatever the other arguments are, and the
\* figure is left as it was.
C3_UnknownTemplateFails ==
    [][\A f \in FigIds :
         (/\ LegendCall(f)
          /\ ~Falsy(last'.args.trace)
          /\ \A i \in 1..Len(figs[f].data) : figs[f].data[i].name # last'.args.trace)
         => /\ last'.result = "Trace not found"
            /\ figs' = figs]_vars

C3_Witness ==
    /\ last.op = "add_legend_label"
    /\ last.args.trace = "Z" /\ last.args.label = "L"
    /\ last.args.style.mode = "markers"
    /\ last.result = "Trace not found"
    /\ Len(figs[1].data) = 2

\* C4: with no template trace name and an empty or absent label, the call
\* raises the missing-label error and the figure's traces are unchanged.
C4_MissingLabelFails ==
    [][\A f \in FigIds :
         (LegendCall(f) /\ Falsy(last'.args.trace) /\ Falsy(last'.args.label))
         => /\ last'.result = "Label must be specified"
            /\ figs'[f].data = figs[f].data]_vars

C4_Witness ==
    /\ last.op = "add_legend_label"
    /\ last.args.trace = None /\ last.args.label = ""
    /\ last.result = "Label must be specified"
    /\ Len(figs[1].data) = 1

-----------------------------------------------------------------------------
(* Assigning an axis of the layout, inherited: fig.layout.yaxis2 = dict(...) *)

\* the y-axis definitions callers give a figure before showing it
YAxisSpecs ==
    [yaxis  |-> { [side |-> "left"], [side |-> "right"] },
     yaxis2 |-> { [overlaying |-> "y", side |-> "right"],
                  [overlaying |-> "y", side |-> "right", title |-> "Volume"],
                  [overlaying |-> "y", title |-> ""],
                  [side |-> "right", title |-> "Volume"] }]

\* the axis definitions callers give a figure that is merged into a grid
SourceAxisSpecs ==
    [xaxis  |-> { [title |-> "Date"] },
     xaxis2 |-> { [title |-> "Date"] },
     yaxis2 |-> { [title |-> "Price"] }]

set_layout_axis(fig, key, axis) ==
    [fig EXCEPT !.axes =
        [k \in DOMAIN @ \cup {key} |-> IF k = key THEN axis ELSE @[k]]]

SetLayoutAxis(f, specs) ==
    \E key \in DOMAIN specs :
      \E axis \in specs[key] :
        /\ figs' = [figs EXCEPT ![handles[f]] = set_layout_axis(@, key, axis)]
        /\ last' = [op |-> "set_layout_axis", fig |-> f,
                    args |-> [key |-> key, axis |-> axis],
                    env |-> EmptyDict, result |-> EmptyDict]
        /\ UNCHANGED handles

-----------------------------------------------------------------------------
(* OpenBBFigure._set_openbb_overlays *)

\* self.layout.yaxis: the primary y-axis, with nothing set when the layout
\* does not define it
PrimaryYAxis(axes) == IF "yaxis" \in DOMAIN axes THEN axes["yaxis"] ELSE EmptyDict

\* "yaxis2 and yaxis2.overlaying == "y""
HasOverlayingSecondary(axes) ==
    /\ "yaxis2" \in DOMAIN axes
    /\ Get(axes["yaxis2"], "overlaying") = "y"

\* xshift = -60 if yaxis.side == "right" else -80
\* if yaxis2 and yaxis2.overlaying == "y":
\*     xshift = -110 if not yaxis2.title.text else -130
XShift_TitleSwapped(axes) ==
    IF HasOverlayingSecondary(axes)
    THEN (IF Falsy(Get(axes["yaxis2"], "title")) THEN -130 ELSE -110)
    ELSE (IF Get(PrimaryYAxis(axes), "side") = "right" THEN -60 ELSE -80)

XShift(axes) ==
    IF HasOverlayingSecondary(axes)
    THEN (IF Falsy(Get(axes["yaxis2"], "title")) THEN -110 ELSE -130)
    ELSE (IF Get(PrimaryYAxis(axes), "side") = "right" THEN -60 ELSE -80)

\* the command-location annotation (properties not passed are absent)
CommandAnnotation(text, xshift) ==
    [x |-> "-0.015", y |-> "0.5", yref |-> "paper", xref |-> "paper",
     text |-> text, textangle |-> -90, font_size |-> 24, font_color |-> "gray",
     opacity |-> "0.5", yanchor |-> "middle", xanchor |-> "left",
     xshift |-> xshift, showarrow |-> FALSE]

\* the branding annotation
BrandingAnnotation_YrefSwapped(is_subplots) ==
    [x |-> "1", y |-> "0",
     yref |-> IF ~is_subplots THEN "paper" ELSE "y domain",
     xref |-> "x domain", text |-> "OpenBB Terminal",
     font_size |-> 17, font_color |-> "gray", opacity |-> "0.5",
     yanchor |-> "bottom", xanchor |-> "right",
     xshift |-> 40, yshift |-> -80, showarrow |-> FALSE]

BrandingAnnotation(is_subplots) ==
    [x |-> "1", y |-> "0",
     yref |-> IF ~is_subplots THEN "y domain" ELSE "paper",
     xref |-> "x domain", text |-> "OpenBB Terminal",
     font_size |-> 17, font_color |-> "gray", opacity |-> "0.5",
     yanchor |-> "bottom", xanchor |-> "right",
     xshift |-> 40, yshift |-> -80, showarrow |-> FALSE]

\* "if command_location: ... self.add_annotation(...)
\*  self.add_annotation(... text="OpenBB Terminal" ...)"
set_openbb_overlays_Once(fig, cmd) ==
    IF \E i \in 1..Len(fig.annotations) :
         fig.annotations[i].text = "OpenBB Terminal"
    THEN fig
    ELSE LET withcmd == IF ~Falsy(cmd)
                        THEN Append(fig.annotations,
                                    CommandAnnotation(cmd, XShift(fig.axes)))
                        ELSE fig.annotations
         IN  [fig EXCEPT !.annotations =
                             Append(withcmd, BrandingAnnotation(fig.is_subplots))]

set_openbb_overlays(fig, cmd) ==
    LET withcmd == IF ~Falsy(cmd)
                   THEN Append(fig.annotations,
                               CommandAnnotation(cmd, XShift(fig.axes)))
                   ELSE fig.annotations
    IN  [fig EXCEPT !.annotations =
                        Append(withcmd, BrandingAnnotation(fig.is_subplots))]

-----------------------------------------------------------------------------
(* OpenBBFigure.show *)

MarginKeys == {"l", "r", "b", "t", "pad"}

\* margin_add, keyed as zip(["l", "r", "b", "t", "pad"], margin_add) pairs it
margin_add(has_secondary_y) ==
    IF ~has_secondary_y
    THEN [l |-> 90, r |-> 100, b |-> 80, t |-> 40, pad |-> 10]
    ELSE [l |-> 90, r |-> 40, b |-> 80, t |-> 40, pad |-> 10]

\* "if get_backend().isatty: for margin, add in zip(...): ..."
AddMargins_Overwrite(margin, add) ==
    [k \in DOMAIN margin \cup MarginKeys |->
       IF k \in MarginKeys THEN add[k] ELSE margin[k]]

AddMargins(margin, add) ==
    [k \in DOMAIN margin \cup MarginKeys |->
       IF k \in MarginKeys
       THEN (IF k \in DOMAIN margin THEN margin[k] + add[k] ELSE add[k])
       ELSE margin[k]]

\* "if not get_backend().isatty:
\*      self.layout.margin = dict(l=40, r=40, b=50, t=50, pad=10)"
ResetMargins_KeepLeft(margin) ==
    DictUpdate([l |-> 40, r |-> 40, b |-> 50, t |-> 50, pad |-> 10],
               [k \in DOMAIN margin \cap {"l"} |-> margin[k]])

ResetMargins(margin) == [l |-> 40, r |-> 40, b |-> 50, t |-> 50, pad |-> 10]

\* height / 4.5 as the fraction <<numerator, denominator>>, where
\* height = 600 if not self.layout.height else self.layout.height
TraceGroupGap(size) ==
    LET height == IF "height" \notin DOMAIN size \/ size["height"] = 0
                  THEN 600 ELSE size["height"]
    IN  <<height * 2, 9>>

\* the modebar style set when the template's mapbox style is "dark"
DarkModebar ==
    [orientation |-> "v", bgcolor |-> "#2A2A2A", color |-> "#FFFFFF",
     activecolor |-> "#d1030d"]

\* self.to_json(): the serialized figure
to_json(fig) ==
    [data |-> fig.data,
     layout |-> [margin |-> fig.margin, size |-> fig.size,
                 annotations |-> fig.annotations, shapes |-> fig.shapes,
                 axes |-> fig.axes,
                 legend |-> fig.legend, modebar |-> fig.modebar,
                 newshape_line_color |-> fig.newshape_line_color,
                 title |-> fig.title]]

\* "if strtobool(os.environ.get("TERMINAL_PRO", "False")): return self.to_json()"
ReturnsJson_WhenNoTty(tty, pro) == ~tty

ReturnsJson(tty, pro) == pro

\* the figure after show(**kwargs) ran with the backend's isatty = tty and
\* command_location = cmd
show_figure(fig, tty, cmd) ==
    LET f1 == set_openbb_overlays(fig, cmd)
        f2 == IF tty
              THEN [f1 EXCEPT !.margin = AddMargins(@, margin_add(f1.has_secondary_y))]
              ELSE f1
        f3 == IF ~tty THEN [f2 EXCEPT !.margin = ResetMargins(@)] ELSE f2
        f4 == [f3 EXCEPT !.legend =
                 DictUpdate(@, [tracegroupgap |-> TraceGroupGap(f3.size)])]
    IN  IF f4.template = "dark"
        THEN [f4 EXCEPT !.newshape_line_color = "gold", !.modebar = DarkModebar]
        ELSE f4

\* "kwargs.update(config=dict(scrollZoom=True, displaylogo=False))"
ShowOptions(kwargs) ==
    DictUpdate(kwargs, [config |-> [scrollZoom |-> TRUE, displaylogo |-> FALSE]])

\* the keyword arguments callers pass to show
ShowKwargs ==
    { EmptyDict,
      [renderer |-> [name |-> "browser"], config |-> [responsive |-> TRUE]] }

CommandLocations == {"", "/stocks/"}

Brandings(anns) ==
    Cardinality({i \in 1..Len(anns) : anns[i].text = "OpenBB Terminal"})

Show(f) ==
    /\ Brandings(figs[handles[f]].annotations) < MaxShows
    /\ \E tty \in BOOLEAN, pro \in BOOLEAN, cmd \in CommandLocations,
          kwargs \in ShowKwargs :
         LET fig == show_figure(figs[handles[f]], tty, cmd)
             json == ReturnsJson(tty, pro)
         IN  /\ figs' = [figs EXCEPT ![handles[f]] = fig]
             /\ last' = [op |-> "show", fig |-> f,
                         args |-> [kwargs |-> kwargs],
                         env |-> [isatty |-> tty, terminal_pro |-> pro,
                                  command_location |-> cmd],
                         result |->
                           IF json
                           THEN [returned |-> "json", json |-> to_json(fig),
                                 displayed |-> FALSE]
                           ELSE [returned |-> None, displayed |-> TRUE,
                                 options |-> ShowOptions(kwargs)]]
    /\ UNCHANGED handles

-----------------------------------------------------------------------------
(* Finalizing figures: overlays, margins and the hand-off *)

InitShow ==
    /\ \E tty \in BOOLEAN, template \in {"dark", "light"} :
         \/ \E sub \in BOOLEAN, sec \in BOOLEAN :
              figs = [f \in FigIds |->
                        NewFigure(sub, sec, EmptyDict, EmptyDict, tty, template)]
         \/ \E specs \in SpecsArgs(1, 1) :
              figs = [f \in FigIds |-> create_subplots(1, 1, specs, tty, template)]
    /\ last = [op |-> "init", fig |-> 0, args |-> None, env |-> EmptyDict,
               result |-> EmptyDict]
    /\ handles = [h \in FigIds |-> h]

NextShow == Show(1) \/ SetLayoutAxis(1, YAxisSpecs)

SpecShow == InitShow /\ [][NextShow]_vars

-----------------------------------------------------------------------------
(* Claims about show, checked under SpecShow *)

\* the step just taken is a call of show on figure f
ShowCall(f) == last'.op = "show" /\ last'.fig = f

ExportMargins == [l |-> 40, r |-> 40, b |-> 50, t |-> 50, pad |-> 10]

InteractiveDelta(has_secondary_y) ==
    IF has_secondary_y
    THEN [l |-> 90, r |-> 40, b |-> 80, t |-> 40, pad |-> 10]
    ELSE [l |-> 90, r |-> 100, b |-> 80, t |-> 40, pad |-> 10]

\* every margin component after the call is the component before plus the
\* delta, or the delta when the component was unset
MarginsAdded(f) ==
    LET before == figs[f].margin
        after  == figs'[f].margin
        delta  == InteractiveDelta(figs[f].has_secondary_y)
    IN  \A k \in MarginKeys :
          /\ k \in DOMAIN after
          /\ after[k] = IF k \in DOMAIN before THEN before[k] + delta[k]
                        ELSE delta[k]

\* C5: when the backend is interactive, show adds the delta vector
\* [l=90, r=100, b=80, t=40, pad=10] (r=40 with a secondary y-axis) to the
\* margins component by component, setting a component that was unset to the
\* delta; from unset margins without a secondary y-axis one call gives
\* {l:90, r:100, b:80, t:40, pad:10} and the next {l:180, r:200, b:160, t:80,
\* pad:20}.
C5_InteractiveMarginsAdditive ==
    [][\A f \in FigIds :
         (ShowCall(f) /\ last'.env.isatty)
         => /\ MarginsAdded(f)
            /\ (figs[f].margin = EmptyDict /\ ~figs[f].has_secondary_y)
               => figs'[f].margin =
                    [l |-> 90, r |-> 100, b |-> 80, t |-> 40, pad |-> 10]
            /\ (/\ figs[f].margin =
                     [l |-> 90, r |-> 100, b |-> 80, t |-> 40, pad |-> 10]
                /\ ~figs[f].has_secondary_y)
               => figs'[f].margin =
                    [l |-> 180, r |-> 200, b |-> 160, t |-> 80, pad |-> 20]]_vars

C5_Witness ==
    /\ last.op = "show" /\ last.env.isatty
    /\ ~figs[1].has_secondary_y
    /\ Brandings(figs[1].annotations) = 2
    /\ figs[1].margin = [l |-> 180, r |-> 200, b |-> 160, t |-> 80, pad |-> 20]

\* C6: when the backend is not interactive, the margins after show are
\* exactly {l:40, r:40, b:50, t:50, pad:10} whatever they were before, after
\* the first call and after every further one.
C6_ExportMarginsReset ==
    [][\A f \in FigIds :
         (ShowCall(f) /\ ~last'.env.isatty)
         => figs'[f].margin = ExportMargins]_vars

C6_Witness ==
    /\ last.op = "show" /\ ~last.env.isatty
    /\ "height" \in DOMAIN figs[1].size
    /\ Brandings(figs[1].annotations) = 2
    /\ figs[1].margin = ExportMargins

\* C7 as stated: whenever the export-mode flag is true, show resets the
\* margins to the export constants, returns the serialized document and does
\* not display, whatever the capability probe reports; whenever the flag is
\* false it displays and returns no document.
C7_ExportFlagDecidesMode ==
    [][\A f \in FigIds :
         ShowCall(f)
         => /\ last'.env.terminal_pro
               => /\ figs'[f].margin = ExportMargins
                  /\ last'.result.returned = "json"
                  /\ ~last'.result.displayed
            /\ ~last'.env.terminal_pro
               => /\ last'.result.displayed
                  /\ last'.result.returned = None]_vars

\* C7 amended: the export-mode flag alone decides the hand-off (true: the
\* serialized finalized figure is returned and nothing is displayed; false:
\* the figure is displayed and nothing is returned); the capability probe
\* alone decides the margins (not interactive: reset to the export constants;
\* interactive: the delta is added), also when the export-mode flag is true.
C7_FlagDecidesHandoffProbeDecidesMargins ==
    [][\A f \in FigIds :
         ShowCall(f)
         => /\ last'.env.terminal_pro
               => /\ last'.result.returned = "json"
                  /\ last'.result.json = to_json(figs'[f])
                  /\ ~last'.result.displayed
            /\ ~last'.env.terminal_pro
               => /\ last'.result.displayed
                  /\ last'.result.returned = None
            /\ ~last'.env.isatty => figs'[f].margin = ExportMargins
            /\ last'.env.isatty
               => MarginsAdded(f) /\ figs'[f].margin # ExportMargins]_vars

C7_Witness ==
    /\ last.op = "show"
    /\ last.env.terminal_pro /\ last.env.isatty
    /\ last.result.returned = "json" /\ ~last.result.displayed
    /\ figs[1].margin = [l |-> 90, r |-> 100, b |-> 80, t |-> 40, pad |-> 10]

\* C8: for a non-empty command location the x-shift of the command-location
\* annotation is -60 when the primary y-axis is on the right and no secondary
\* y-axis overlays it, -80 when it is on the left and none overlays it, -110
\* when an overlaying secondary y-axis has no title and -130 when it has one;
\* no other value occurs.
C8_XShiftTable ==
    [][\A f \in FigIds :
         (ShowCall(f) /\ ~Falsy(last'.env.command_location))
         => LET axes   == figs[f].axes
                n      == Len(figs[f].annotations)
                ann    == figs'[f].annotations[n + 1]
                side   == IF "yaxis" \in DOMAIN axes /\ "side" \in DOMAIN axes["yaxis"]
                          THEN axes["yaxis"]["side"] ELSE None
                sec    == /\ "yaxis2" \in DOMAIN axes
                          /\ "overlaying" \in DOMAIN axes["yaxis2"]
                          /\ axes["yaxis2"]["overlaying"] = "y"
                titled == /\ sec
                          /\ "title" \in DOMAIN axes["yaxis2"]
                          /\ axes["yaxis2"]["title"] # ""
            IN  /\ Len(figs'[f].annotations) = n + 2
                /\ ann.text = last'.env.command_location
                /\ (side = "right" /\ ~sec) => ann.xshift = -60
                /\ (side = "left" /\ ~sec) => ann.xshift = -80
                /\ (sec /\ ~titled) => ann.xshift = -110
                /\ (sec /\ titled) => ann.xshift = -130
                /\ ann.xshift \in {-60, -80, -110, -130}]_vars

C8_Witness ==
    /\ last.op = "show"
    /\ \E i, j \in 1..Len(figs[1].annotations) :
         /\ figs[1].annotations[i].text = "/stocks/"
         /\ figs[1].annotations[i].xshift = -60
         /\ figs[1].annotations[j].text = "/stocks/"
         /\ figs[1].annotations[j].xshift = -130

\* C9: the branding annotation show appends has y-reference "paper" on a
\* subplots figure and "y domain" otherwise, x-reference "x domain", x = 1
\* and y = 0, and is in every other field the annotation a figure with the
\* opposite is_subplots flag gets.
C9_BrandingYref ==
    [][\A f \in FigIds :
         ShowCall(f)
         => LET b == Newest(figs'[f].annotations)
            IN  /\ b.text = "OpenBB Terminal"
                /\ b.yref = IF figs[f].is_subplots THEN "paper" ELSE "y domain"
                /\ b.xref = "x domain" /\ b.x = "1" /\ b.y = "0"
                /\ [b EXCEPT !.yref = "any"] =
                     [BrandingAnnotation(~figs[f].is_subplots)
                        EXCEPT !.yref = "any"]]_vars

C9_Witness ==
    /\ last.op = "show"
    /\ figs[1].is_subplots
    /\ Newest(figs[1].annotations).yref = "paper"
    /\ Newest(figs[1].annotations).text = "OpenBB Terminal"

-----------------------------------------------------------------------------
(* OpenBBFigure.to_subplot *)

\* subplot.add_trace(trace, row=row, col=col, secondary_y=secondary_y) needs
\* a grid that has the cell, with a secondary y-axis when one is asked for
CellExists(grid, row, col, secondary_y) ==
    /\ grid # EmptyDict
    /\ row \in 1..grid.rows
    /\ col \in 1..grid.cols
    /\ secondary_y => <<row, col>> \in grid.secondary

\* the copy of the trace that add_trace puts on the axes of cell (row, col)
Placed_Primary(trace, grid, row, col, secondary_y) ==
    [trace EXCEPT
       !.xaxis = AxisRef("x", CellIndex(grid.cols, row, col)),
       !.yaxis = AxisRef("y", YNumber(grid, row, col))]

Placed(trace, grid, row, col, secondary_y) ==
    [trace EXCEPT
       !.xaxis = AxisRef("x", CellIndex(grid.cols, row, col)),
       !.yaxis = AxisRef("y", YNumber(grid, row, col)
                              + (IF secondary_y THEN 1 ELSE 0))]

\* "if f"xaxis{col}" in fig_dict["layout"]:
\*      subplot.layout[f"xaxis{col}"] = fig_dict["layout"][f"xaxis{col}"]"
\* where fig_dict = self.to_dict() holds the axes under their layout keys
Transplant_Merge(source_axes, target_axes, key) ==
    IF key \in DOMAIN source_axes
    THEN [k \in DOMAIN target_axes \cup {key} |->
            IF k = key
            THEN DictUpdate(IF k \in DOMAIN target_axes THEN target_axes[k]
                            ELSE EmptyDict, source_axes[key])
            ELSE target_axes[k]]
    ELSE target_axes

Transplant(source_axes, target_axes, key) ==
    IF key \in DOMAIN source_axes
    THEN [k \in DOMAIN target_axes \cup {key} |->
            IF k = key THEN source_axes[key] ELSE target_axes[k]]
    ELSE target_axes

\* subplot.update_layout(margin=dict(l=30, r=30, b=50, t=50, pad=0))
TightenMargins_Add(margin) ==
    AddMargins(margin, [l |-> 30, r |-> 30, b |-> 50, t |-> 50, pad |-> 0])

TightenMargins(margin) ==
    DictUpdate(margin, [l |-> 30, r |-> 30, b |-> 50, t |-> 50, pad |-> 0])

\* The outcome of self.to_subplot(subplot, row, col, secondary_y) with the
\* backend's isatty = tty: the exception raised (None when the call
\* returns), and both figures afterwards.  add_trace raises on the first
\* trace when the cell does not exist, after that trace got its legend group.
to_subplot(self, subplot, row, col, secondary_y, tty) ==
    LET n         == Len(self.data)
        raises    == n > 0 /\ ~CellExists(subplot.grid, row, col, secondary_y)
        tagged(i) == [self.data[i] EXCEPT !.legendgroup = FormatKey("", row)]
        self1     == [self EXCEPT !.data =
                        [i \in 1..n |->
                           IF raises /\ i > 1 THEN self.data[i] ELSE tagged(i)]]
        added     == [i \in 1..n |->
                        Placed(tagged(i), subplot.grid, row, col, secondary_y)]
        axes1     == Transplant(self1.axes, subplot.axes, FormatKey("xaxis", col))
        axes2     == Transplant(self1.axes, axes1, FormatKey("yaxis", row))
    IN  IF raises
        THEN [raised |-> "cell", self |-> self1, subplot |-> subplot]
        ELSE [raised |-> None, self |-> self1,
              subplot |-> [subplot EXCEPT
                             !.data = @ \o added,
                             !.axes = axes2,
                             !.margin = IF ~tty THEN TightenMargins(@) ELSE @]]

\* max: the traces the target may hold after the call
ToSubplot(src, tgt, max) ==
    /\ Len(figs[handles[tgt]].data) + Len(figs[handles[src]].data) <= max
    /\ \E row \in 1..MaxRows, col \in 1..MaxCols, secondary_y \in BOOLEAN,
          tty \in BOOLEAN :
         LET r == to_subplot(figs[handles[src]], figs[handles[tgt]], row, col,
                             secondary_y, tty)
         IN  /\ figs' = [figs EXCEPT ![handles[src]] = r.self,
                                     ![handles[tgt]] = r.subplot]
             /\ last' = [op |-> "to_subplot", fig |-> src,
                         args |-> [subplot |-> tgt, row |-> row, col |-> col,
                                   secondary_y |-> secondary_y],
                         env |-> [isatty |-> tty],
                         result |-> r.raised]
    /\ UNCHANGED handles

-----------------------------------------------------------------------------
(* Merging a figure into a subplot grid: figure 1 is merged into figure 2 *)

\* the figures that are merged: a plain figure or a grid of its own, with
\* no trace or with one
SourceFigures(tty) ==
    LET plain == NewFigure(FALSE, FALSE, EmptyDict, EmptyDict, tty, "dark")
    IN  { plain,
          add_trace(plain, Scatter(<<"1", "2">>, <<"3", "4">>, None, "B", "{}",
                                   None, None, EmptyDict)),
          create_subplots(MaxRows, MaxCols, <<>>, tty, "dark") }

\* the grids figures are merged into, without and with secondary y-axes
TargetFigures(tty) ==
    { create_subplots(MaxRows, MaxCols, specs, tty, "dark") :
        specs \in { <<>>,
                    [r \in 1..MaxRows |-> [c \in 1..MaxCols |->
                                             [secondary_y |-> TRUE]]] } }

InitSubplot ==
    /\ \E tty \in BOOLEAN :
         \E source \in SourceFigures(tty), target \in TargetFigures(tty) :
           figs = [f \in FigIds |-> IF f = 1 THEN source ELSE target]
    /\ last = [op |-> "init", fig |-> 0, args |-> None, env |-> EmptyDict,
               result |-> None]
    /\ handles = [h \in FigIds |-> h]

NextSubplot ==
    \/ ToSubplot(1, 2, MaxMerged)
    \/ SetLayoutAxis(1, SourceAxisSpecs)

SpecSubplot == InitSubplot /\ [][NextSubplot]_vars

-----------------------------------------------------------------------------
(* Claims about to_subplot, checked under SpecSubplot *)

\* the step just taken is a call src.to_subplot(tgt, ...) that returned
MergeCall(src, tgt) ==
    /\ last'.op = "to_subplot"
    /\ last'.fig = src
    /\ last'.args.subplot = tgt
    /\ last'.result = None

\* C10: to_subplot with row and col replaces in the target's layout only the
\* x-axis fragment under the key made from col and the y-axis fragment under
\* the key made from row, each by the source's fragment under the same key,
\* verbatim; every other axis fragment of the target is as it was (and so
\* are these two when the source's layout has no fragment under the key).
C10_OnlyCellAxesReplaced ==
    [][\A src \in FigIds, tgt \in FigIds :
         MergeCall(src, tgt)
         => LET xkey   == "xaxis" \o ToString(last'.args.col)
                ykey   == "yaxis" \o ToString(last'.args.row)
                source == figs[src].axes
                before == figs[tgt].axes
                after  == figs'[tgt].axes
            IN  \A k \in DOMAIN before \cup DOMAIN after \cup {xkey, ykey} :
                  IF k \in {xkey, ykey} /\ k \in DOMAIN source
                  THEN k \in DOMAIN after /\ after[k] = source[k]
                  ELSE /\ k \in DOMAIN after <=> k \in DOMAIN before
                       /\ k \in DOMAIN before => after[k] = before[k]]_vars

C10_Witness ==
    /\ last.op = "to_subplot" /\ last.result = None
    /\ last.args.row = 2 /\ last.args.col = 2
    /\ "xaxis" \in DOMAIN figs[1].axes
    /\ figs[1].axes["xaxis"] = [title |-> "Date"]
    /\ figs[2].axes["xaxis2"] = [title |-> "Date"]
    /\ figs[2].axes["yaxis2"] = [title |-> "Price"]
    /\ "anchor" \in DOMAIN figs[2].axes["xaxis3"]
    /\ "anchor" \in DOMAIN figs[2].axes["yaxis3"]
    /\ "title" \notin DOMAIN figs[2].axes["xaxis"]

-----------------------------------------------------------------------------
(* OpenBBFigure.set_title *)

\* self.update_layout(title=title, **kwargs)
set_title(fig, title, kwargs) ==
    [fig EXCEPT !.title = title, !.size = DictUpdate(@, kwargs)]

TitleArgs == {"Price"}

\* the layout overrides callers pass along with the title
TitleKwargs == { EmptyDict, [height |-> 500] }

SetTitle(f) ==
    /\ \E title \in TitleArgs, kwargs \in TitleKwargs :
         /\ figs' = [figs EXCEPT ![handles[f]] = set_title(@, title, kwargs)]
         /\ last' = [op |-> "set_title", fig |-> f,
                     args |-> [title |-> title, kwargs |-> kwargs],
                     env |-> EmptyDict, result |-> None]
    /\ UNCHANGED handles

-----------------------------------------------------------------------------
(* OpenBBFigure(fig): a new object built over a base figure *)

\* "super().__init__()
\*  if fig: self.__dict__ = fig.__dict__":
\* the id of the state the new object holds afterwards, given the id of the
\* state its own go.Figure constructor made and the id of the state the base
\* figure holds
AdoptDict_Copy(own, base) == own

AdoptDict(own, base) == base

\* new = OpenBBFigure(fig=base, is_subplots=...): the flags, and on a tty the
\* margins and the size, are written through the new object into the state
\* it holds
Wrap(new, base) ==
    /\ handles[new] = 0
    /\ handles[base] # 0
    /\ \E is_subplots \in BOOLEAN, tty \in BOOLEAN :
         LET d == AdoptDict(new, handles[base])
         IN  /\ figs' = [figs EXCEPT ![d] =
                           init_figure(figs[handles[base]], is_subplots, FALSE,
                                       EmptyDict, EmptyDict, tty)]
             /\ handles' = [handles EXCEPT ![new] = d]
             /\ last' = [op |-> "__init__", fig |-> new,
                         args |-> [fig |-> base, is_subplots |-> is_subplots],
                         env |-> [isatty |-> tty], result |-> None]

-----------------------------------------------------------------------------
(* Two handles on one figure: handle 1 is the base figure, handle 2 the     *)
(* OpenBBFigure built over it                                               *)

MaxHeld == 2       \* traces and annotations the figure may hold before no
                   \* more calls are made through its handles

Held(f) == Len(figs[handles[f]].data) + Len(figs[handles[f]].annotations)

InitAlias ==
    /\ \E tty \in BOOLEAN :
         figs = [f \in FigIds |->
                   IF f = 1
                   THEN NewFigure(FALSE, FALSE, EmptyDict, EmptyDict, tty, "light")
                   ELSE BaseFigure("light")]
    /\ last = [op |-> "init", fig |-> 0, args |-> None, env |-> EmptyDict,
               result |-> None]
    /\ handles = [h \in FigIds |-> IF h = 1 THEN 1 ELSE 0]

Through(h) == handles[h] # 0 /\ Held(h) < MaxHeld

NextAlias ==
    \/ Wrap(2, 1)
    \/ \E h \in FigIds : Through(h) /\ AddTrace(h)
    \/ \E h \in FigIds : Through(h) /\ Show(h)
    \/ \E h \in FigIds : Through(h) /\ SetTitle(h)

SpecAlias == InitAlias /\ [][NextAlias]_vars

-----------------------------------------------------------------------------
(* Claims about OpenBBFigure(fig=base), checked under SpecAlias *)

\* what a handle reports: the traces and the layout of the state it holds
Reports(h) == to_json(figs[handles[h]])

-----------------------------------------------------------------------------
(* Claims about the hand-off and about repeated calls of show, checked      *)
(* under SpecShow                                                           *)

\* the two display options show fixes
FixedOptions == {"scrollZoom", "displaylogo"}

\* C12: when show hands the figure to the renderer, the options the renderer
\* receives have scrollZoom = true and displaylogo = false, and every option
\* the caller supplied that is not one of these two is still there with the
\* caller's value: the caller's keyword arguments and the entries of the
\* caller's config.
C12_CallerOptionsSurvive ==
    [][ShowCall(1) /\ last'.result.displayed
       => LET kw  == last'.args.kwargs
              opt == last'.result.options
          IN  /\ "config" \in DOMAIN opt
              /\ opt["config"].scrollZoom = TRUE
              /\ opt["config"].displaylogo = FALSE
              /\ \A k \in DOMAIN kw \ {"config"} :
                   k \in DOMAIN opt /\ opt[k] = kw[k]
              /\ "config" \in DOMAIN kw
                 => \A c \in DOMAIN kw["config"] \ FixedOptions :
                      /\ c \in DOMAIN opt["config"]
                      /\ opt["config"][c] = kw["config"][c]]_vars

\* the command-location annotations among anns
CommandAnnotations(anns) ==
    Cardinality({i \in 1..Len(anns) : anns[i].text # "OpenBB Terminal"})

\* the margins are k times the delta vector (an unset margin counts as 0)
KTimes(margin, k, delta) ==
    \A key \in MarginKeys :
      (IF key \in DOMAIN margin THEN margin[key] ELSE 0) = k * delta[key]

\* C13: every call of show appends one branding annotation and, exactly when
\* the command location is non-empty, one command-location annotation before
\* it, whatever annotations the figure already has; so a figure that had k
\* branding annotations has k + 1 afterwards, and on a tty margins that were
\* k times the delta vector are k + 1 times the delta vector afterwards.
C13_EveryShowAppendsAgain ==
    [][ShowCall(1)
       => LET before == figs[1].annotations
              after  == figs'[1].annotations
              cmd    == last'.env.command_location
              n      == IF cmd = "" THEN 0 ELSE 1
              delta  == InteractiveDelta(figs[1].has_secondary_y)
          IN  /\ Len(after) = Len(before) + n + 1
              /\ SubSeq(after, 1, Len(before)) = before
              /\ Brandings(after) = Brandings(before) + 1
              /\ CommandAnnotations(after) = CommandAnnotations(before) + n
              /\ after[Len(after)].text = "OpenBB Terminal"
              /\ n = 1 => after[Len(after) - 1].text = cmd
              /\ last'.env.isatty
                 => \A k \in 0..MaxShows :
                      KTimes(figs[1].margin, k, delta) /\ Brandings(before) = k
                      => KTimes(figs'[1].margin, k + 1, delta)]_vars

\* the figure was shown twice on a tty, with a command location both times:
\* two branding annotations, two command-location annotations and twice the
\* delta vector in the margins
C13_Witness ==
    /\ last.op = "show" /\ last.env.isatty
    /\ Brandings(figs[1].annotations) = 2
    /\ CommandAnnotations(figs[1].annotations) = 2
    /\ KTimes(figs[1].margin, 2, InteractiveDelta(figs[1].has_secondary_y))

-----------------------------------------------------------------------------
(* Merging a figure that holds traces into a grid, repeatedly: figure 1 is  *)
(* merged into figure 2                                                     *)

MaxPlaced == 4     \* traces the grid may hold after a merge

\* the figures that are merged: one without traces, one with two traces
TracedFigures(tty) ==
    LET plain == NewFigure(FALSE, FALSE, EmptyDict, EmptyDict, tty, "dark")
    IN  { plain,
          add_trace(add_trace(plain,
                      Scatter(<<"1", "2">>, <<"3", "4">>, "lines", "close",
                              "{color:red}", "dot", None, EmptyDict)),
                    Scatter(<<"1", "2">>, <<"5", "6">>, "markers", "volume",
                            "{}", None, None, EmptyDict)) }

\* the grids figures are merged into: fresh ones, and ones that were shown
\* before and so have the margins show left
MergeTargets(tty) ==
    TargetFigures(tty) \cup {show_figure(t, tty, "") : t \in TargetFigures(tty)}

InitMerge ==
    /\ \E tty \in BOOLEAN :
         \E source \in TracedFigures(tty), target \in MergeTargets(tty) :
           figs = [f \in FigIds |-> IF f = 1 THEN source ELSE target]
    /\ last = [op |-> "init", fig |-> 0, args |-> None, env |-> EmptyDict,
               result |-> None]
    /\ handles = [h \in FigIds |-> h]

NextMerge == ToSubplot(1, 2, MaxPlaced)

SpecMerge == InitMerge /\ [][NextMerge]_vars

-----------------------------------------------------------------------------
(* Claims about the traces and the margins after to_subplot, checked under  *)
(* SpecMerge                                                                *)

\* trace tr lies in cell (row, col) of the grid laid out in axes: its x-axis
\* is the cell's, and its y-axis is the cell's primary y-axis or, with
\* secondary_y, the axis overlaying that one on the right
InCell(tr, axes, grid, row, col, secondary_y) ==
    \E n \in 1..MaxAxes, m \in 1..MaxAxes :
      /\ tr.xaxis = AxisRef("x", n)
      /\ LayoutKey("xaxis", n) \in DOMAIN axes
      /\ axes[LayoutKey("xaxis", n)].domain = <<col, grid.cols>>
      /\ LayoutKey("yaxis", m) \in DOMAIN axes
      /\ "domain" \in DOMAIN axes[LayoutKey("yaxis", m)]
      /\ axes[LayoutKey("yaxis", m)].domain = <<row, grid.rows>>
      /\ axes[LayoutKey("yaxis", m)].anchor = tr.xaxis
      /\ IF secondary_y
         THEN \E k \in 1..MaxAxes :
                /\ tr.yaxis = AxisRef("y", k)
                /\ LayoutKey("yaxis", k) \in DOMAIN axes
                /\ "overlaying" \in DOMAIN axes[LayoutKey("yaxis", k)]
                /\ axes[LayoutKey("yaxis", k)].overlaying = AxisRef("y", m)
         ELSE tr.yaxis = AxisRef("y", m)

\* C14: a call of to_subplot with row r that returns gives every trace of
\* the source the legend group r and appends to the target, in the source's
\* order, a copy of each source trace that carries that legend group and
\* lies in cell (r, col) on the y-axis secondary_y asks for; the target has
\* as many more traces as the source holds, and its earlier traces are as
\* they were, in their order.
C14_TracesAppendedInOrder ==
    [][MergeCall(1, 2)
       => LET source == figs[1].data
              tagged == figs'[1].data
              before == figs[2].data
              after  == figs'[2].data
              a      == last'.args
              group  == ToString(a.row)
          IN  /\ Len(tagged) = Len(source)
              /\ \A i \in 1..Len(source) :
                   tagged[i] = [source[i] EXCEPT !.legendgroup = group]
              /\ Len(after) = Len(before) + Len(source)
              /\ SubSeq(after, 1, Len(before)) = before
              /\ \A i \in 1..Len(source) :
                   LET tr == after[Len(before) + i]
                   IN  /\ [tr EXCEPT !.xaxis = None, !.yaxis = None]
                            = [source[i] EXCEPT !.legendgroup = group,
                                                !.xaxis = None, !.yaxis = None]
                       /\ InCell(tr, figs[2].axes, figs[2].grid, a.row, a.col,
                                 a.secondary_y)]_vars

\* two traces were merged into row 1 and then again into row 2, column 2, on
\* the secondary y-axis: the grid holds the four copies in that order, the
\* earlier two still in legend group 1
C14_Witness ==
    /\ last.op = "to_subplot" /\ last.result = None
    /\ last.args.row = 2 /\ last.args.col = 2 /\ last.args.secondary_y
    /\ Len(figs[2].data) = 4
    /\ figs[2].data[1].legendgroup = "1" /\ figs[2].data[1].name = "close"
    /\ figs[2].data[2].legendgroup = "1" /\ figs[2].data[2].name = "volume"
    /\ figs[2].data[3].legendgroup = "2" /\ figs[2].data[3].name = "close"
    /\ figs[2].data[4].legendgroup = "2" /\ figs[2].data[4].name = "volume"
    /\ figs[2].data[4].yaxis = "y8"

\* the margins a merge without a tty leaves
MergedMargins == [l |-> 30, r |-> 30, b |-> 50, t |-> 50, pad |-> 0]

\* C16: a call of to_subplot that returns while the backend has no tty sets
\* the five margins of the target to l = 30, r = 30, b = 50, t = 50, pad = 0
\* whatever they were, adding nothing to them, so a target whose margins a
\* merge has set keeps them through the next merge; with a tty the call
\* leaves the target's margins as they were.
C16_MergeMarginsFixed ==
    [][MergeCall(1, 2)
       => LET before == figs[2].margin
              after  == figs'[2].margin
          IN  IF last'.env.isatty
              THEN after = before
              ELSE /\ \A k \in MarginKeys :
                        k \in DOMAIN after /\ after[k] = MergedMargins[k]
                   /\ \A k \in DOMAIN before \ MarginKeys :
                        k \in DOMAIN after /\ after[k] = before[k]
                   /\ DOMAIN after = DOMAIN before \cup MarginKeys
                   /\ (\A k \in MarginKeys :
                         k \in DOMAIN before /\ before[k] = MergedMargins[k])
                      => after = before]_vars

\* a grid that was shown before took two merges, the last one without a
\* tty, and has the fixed margins
C16_Witness ==
    /\ last.op = "to_subplot" /\ last.result = None /\ ~last.env.isatty
    /\ Len(figs[2].data) = 4
    /\ Brandings(figs[2].annotations) = 1
    /\ \A k \in MarginKeys : figs[2].margin[k] = MergedMargins[k]

-----------------------------------------------------------------------------
(* Grids built by create_subplots, then shown *)

InitGrid ==
    /\ \E rows \in 1..MaxRows, cols \in 1..MaxCols, tty \in BOOLEAN :
         \E specs \in SpecsArgs(rows, cols) :
           /\ figs = [f \in FigIds |-> create_subplots(rows, cols, specs, tty, "light")]
           /\ last = [op |-> "create_subplots", fig |-> 1,
                      args |-> [rows |-> rows, cols |-> cols, specs |-> specs],
                      env |-> [isatty |-> tty], result |-> None]
    /\ handles = [h \in FigIds |-> h]

NextGrid == Show(1)

SpecGrid == InitGrid /\ [][NextGrid]_vars

-----------------------------------------------------------------------------
(* Claims about create_subplots, checked under SpecGrid *)

\* the cells of the figure's grid that have a secondary y-axis
SecondaryCells(f) == figs[f].grid.secondary

\* C15: a figure built by create_subplots has is_subplots true at all times,
\* and has_secondary_y true exactly when some cell of its grid was given a
\* secondary y-axis (never when no specs were passed); so a show on a tty
\* adds l = 90, r = 40, b = 80, t = 40, pad = 10 to the margins exactly for
\* the grids with a secondary y-axis, and r = 100 for the others.
C15_GridFlags ==
    /\ [](/\ figs[1].is_subplots
          /\ figs[1].has_secondary_y <=> SecondaryCells(1) # {}
          /\ last.op = "create_subplots" /\ last.args.specs = <<>>
             => ~figs[1].has_secondary_y)
    /\ [][ShowCall(1) /\ last'.env.isatty
          => \A k \in MarginKeys :
               figs'[1].margin[k] - (IF k \in DOMAIN figs[1].margin
                                     THEN figs[1].margin[k] ELSE 0)
               = IF SecondaryCells(1) # {}
                 THEN [l |-> 90, r |-> 40, b |-> 80, t |-> 40, pad |-> 10][k]
                 ELSE [l |-> 90, r |-> 100, b |-> 80, t |-> 40, pad |-> 10][k]]_vars

\* a grid with more than one cell and a secondary y-axis in its first cell
\* only was shown on a tty: 40 was added on the right
C15_Witness ==
    /\ last.op = "show" /\ last.env.isatty
    /\ figs[1].grid.rows * figs[1].grid.cols > 1
    /\ SecondaryCells(1) = {<<1, 1>>}
    /\ figs[1].has_secondary_y
    /\ figs[1].margin["r"] = 40

-----------------------------------------------------------------------------
(* OpenBBFigure.add_hline_legend, OpenBBFigure.add_vline_legend *)

\* self.add_hline(y, line=line) on a figure without a subplot grid: one line
\* shape across the plot's width at height y
add_hline(fig, y, line) ==
    [fig EXCEPT !.shapes =
        Append(@, [type |-> "line", xref |-> "x domain", x0 |-> "0", x1 |-> "1",
                   yref |-> "y", y0 |-> y, y1 |-> y, line |-> line])]

\* self.add_vline(x, line=line): one line shape across the plot's height at x
add_vline(fig, x, line) ==
    [fig EXCEPT !.shapes =
        Append(@, [type |-> "line", xref |-> "x", x0 |-> x, x1 |-> x,
                   yref |-> "y domain", y0 |-> "0", y1 |-> "1", line |-> line])]

\* "marker=dict(color=line["color"])"
LineMarker_Empty(line) == "{}"

LineMarker(line) == "{color:" \o line["color"] \o "}"

\* "self.add_legend_label(label=name, mode="lines", line_dash=line["dash"],
\*      marker=dict(color=line["color"]), legendrank=legendrank, **kwargs)"
\* on the figure that already has the line: the arguments are evaluated in
\* this order, so a missing "dash" is reported before a missing "color"
line_legend_label(fig, name, line, legendrank, kwargs) ==
    IF "dash" \notin DOMAIN line
    THEN [raised |-> "KeyError: dash", fig |-> fig]
    ELSE IF "color" \notin DOMAIN line
    THEN [raised |-> "KeyError: color", fig |-> fig]
    ELSE LET r == add_legend_label(fig.data, None, name, "lines", LineMarker(line),
                                   line["dash"], legendrank, kwargs)
         IN  [raised |-> r.raised, fig |-> [fig EXCEPT !.data = r.data]]

\* the outcome of the call: the exception raised (None when the call
\* returns) and the figure afterwards
add_hline_legend(fig, y, name, line, legendrank, kwargs) ==
    line_legend_label(add_hline(fig, y, line), name, line, legendrank, kwargs)

add_vline_legend(fig, x, name, line, legendrank, kwargs) ==
    line_legend_label(add_vline(fig, x, line), name, line, legendrank, kwargs)

\* the arguments callers pass
LineValues == {"10", "20"}
NameArgs == {"", "support"}
LineArgs ==
    { [dash |-> "dash", color |-> "red"],
      [dash |-> "dot", color |-> "blue", width |-> "2"],
      [color |-> "red"],
      [dash |-> "dot"] }
RankArgs == {None, "1"}

MaxLines == 2      \* reference lines a figure may hold before no more are added

AddHlineLegend(f) ==
    /\ Len(figs[handles[f]].shapes) < MaxLines
    /\ \E y \in LineValues, name \in NameArgs, line \in LineArgs,
          legendrank \in RankArgs :
         LET r == add_hline_legend(figs[handles[f]], y, name, line, legendrank,
                                   EmptyDict)
         IN  /\ figs' = [figs EXCEPT ![handles[f]] = r.fig]
             /\ last' = [op |-> "add_hline_legend", fig |-> f,
                         args |-> [at |-> y, name |-> name, line |-> line,
                                   legendrank |-> legendrank],
                         env |-> EmptyDict, result |-> r.raised]
    /\ UNCHANGED handles

AddVlineLegend(f) ==
    /\ Len(figs[handles[f]].shapes) < MaxLines
    /\ \E x \in LineValues, name \in NameArgs, line \in LineArgs,
          legendrank \in RankArgs :
         LET r == add_vline_legend(figs[handles[f]], x, name, line, legendrank,
                                   EmptyDict)
         IN  /\ figs' = [figs EXCEPT ![handles[f]] = r.fig]
             /\ last' = [op |-> "add_vline_legend", fig |-> f,
                         args |-> [at |-> x, name |-> name, line |-> line,
                                   legendrank |-> legendrank],
                         env |-> EmptyDict, result |-> r.raised]
    /\ UNCHANGED handles

-----------------------------------------------------------------------------
(* Reference lines with legend entries on one figure without a grid *)

InitLines ==
    /\ \E tty \in BOOLEAN :
         figs = [f \in FigIds |->
                   NewFigure(FALSE, FALSE, EmptyDict, EmptyDict, tty, "dark")]
    /\ last = [op |-> "init", fig |-> 0, args |-> None, env |-> EmptyDict,
               result |-> None]
    /\ handles = [h \in FigIds |-> h]

NextLines == AddHlineLegend(1) \/ AddVlineLegend(1)

SpecLines == InitLines /\ [][NextLines]_vars

-----------------------------------------------------------------------------
(* Claims about add_hline_legend and add_vline_legend, checked under        *)
(* SpecLines                                                                *)

\* the step just taken is a call of add_hline_legend or add_vline_legend on
\* figure f
LineCall(f) ==
    last'.op \in {"add_hline_legend", "add_vline_legend"} /\ last'.fig = f

C18_FailedCallChangesNothing ==
    [][LineCall(1) /\ last'.result # None => figs'[1] = figs[1]]_vars

====
